---------------------------- MODULE Spec2Model ----------------------------
(***************************************************************************)
(* State-machine model of PeerCall (src/src/matrix/calls/PeerCall.ts), the *)
(* 1:1 call signalling engine.                                             *)
(*                                                                         *)
(* Every `await` of the source is a suspension point: the part of a method *)
(* up to its first await is one action, and each resumption is another.    *)
(* The outcome of an awaited external operation (media promise, peer       *)
(* connection call, sendSignallingMessage) is chosen with \E when the      *)
(* operation completes.                                                    *)
(*                                                                         *)
(* Logging is not modelled (the logger calls of the source have no effect  *)
(* on any variable here).  terminate() and hangup() have empty bodies in   *)
(* the source and are modelled as such.  handleRemoteIceCandidates is      *)
(* called by the source but defined nowhere under src/; it is modelled     *)
(* from the specification's section 4.3.                                   *)
(***************************************************************************)
EXTENDS Naturals, Sequences, FiniteSets

\* ---------------------------------------------------------------- bounds
\* number of onNegotiationNeeded callbacks the peer connection delivers
MaxNegotiations == 2
\* number of inbound Candidates messages (each carries one candidate)
MaxCandidates == 2
\* number of local ICE candidates given to queueCandidate
MaxLocalCandidates == 2
\* number of setMedia calls
MaxSetMedia == 2

\* ------------------------------------------------------------- constants
CALL_TIMEOUT_MS == 60000

\* CallState (PeerCall.ts 530-540)
CallState ==
    {"Fledgling", "InviteSent", "WaitLocalMedia", "CreateOffer", "CreateAnswer",
     "Connecting", "Connected", "Ringing", "Ended"}

\* PartyId = string | null; "null" stands for the legacy null party id.
\* Undefined is the value of a field that was never assigned.
Undefined == "undefined"
NullParty == "null"
PartyId == {"A", NullParty}

\* the lifetime field of an Invite: absent (<<>>), or <<a number of milliseconds>>
NoLifetime == <<>>
Lifetimes == {NoLifetime, <<30000>>}

NegIds == 1..MaxNegotiations

\* the arguments of the last call of a method that was not called yet
NoCall == <<>>

\* remoteSDPStreamMetadata is undefined until the first update; afterwards it
\* is <<the registry>>
NoMetadata == <<>>

VARIABLES
    state,                  \* this.state
    direction,              \* this.direction
    opponentPartyId,        \* this.opponentPartyId
    hangupParty,            \* this.hangupParty
    hangupReason,           \* the data model's hangupReason (the class declares no such field)
    localMedia,             \* this.localMedia (a handle)
    stoppedMedia,           \* media handles whose tracks were stop()ped
    pcTracks,               \* media handles whose tracks were added to the peer connection
    pcClosed,               \* peerConnection.close() was called
    remoteCandidateBuffer,  \* this.remoteCandidateBuffer
    drainQueue,             \* addIceCandidates: candidates of the loop not yet completed
    addedCandidates,        \* every candidate passed to peerConnection.addIceCandidate, in order
    rejectedCandidates,     \* the candidates whose addIceCandidate call rejected
    setRemoteCalls,         \* number of peerConnection.setRemoteDescription calls
    negPc,                  \* position of each handleNegotiation task of responsePromiseChain
    sent,                   \* <<type, stream metadata>> of the messages handed to sendSignallingMessage
    statePromiseMap,        \* states with a pending waitForState deferred
    pcCall,                 \* position of call()
    pcAnswer,               \* position of answer() / sendAnswer()
    pcInvite,               \* position of handleInvite()
    pcAnswerMsg,            \* position of handleAnswer()
    inviteLifetime,         \* content.lifetime of the Invite handleInvite is working on
    ringTimerMs,            \* duration the Ringing expiry delay was armed with (0: not armed)
    inviteClock,            \* wall clock since InviteSent was entered: off, running, elapsed
    lastMsg,                \* the message last given to handleIncomingSignallingMessage
    nCandMsgs,              \* number of Candidates messages delivered so far
    lastTerminate,          \* arguments of the last terminate() call
    lastHangup,             \* <<reason, state at the call>> of the last hangup() call
    iceConnectionState,     \* ICE connection state last reported by the peer connection
    candidateSendQueue,     \* this.candidateSendQueue
    candTimers,             \* armed queueCandidate delays: <<duration, candidate queued>>
    candSends,              \* Candidates messages whose send has not settled
    failedCandidates,       \* candidates of the Candidates messages whose send was rejected
    nLocalCands,            \* number of queueCandidate calls so far
    setMediaCalls,          \* setMedia calls awaiting their media: <<oldMedia, media promised>>
    trackCalls,             \* track calls made on the peer connection by the setMedia resumed last
    lastSetMedia,           \* <<media>> of the setMedia call resumed last
    nSetMedia,              \* number of setMedia calls so far
    pcLocalTracks,          \* the local tracks attached to the peer connection (setMedia)
    remoteSDPStreamMetadata, \* this.remoteSDPStreamMetadata
    remoteTracks,           \* peerConnection.remoteTracks
    lastMetadata,           \* updateRemoteSDPStreamMetadata's last call: <<argument,
                            \* whether the call before it had the same argument>>
    disposed,               \* dispose() was called
    cancelledDelays,        \* the delays dispose() cancelled
    path,                   \* Navigation: this._path (its segments)
    observables,            \* Navigation: this._observables, type -> _lastSetValue
    emitted                 \* <<type, value>> emitted by the last applyPath, in order

vars ==
    <<state, direction, opponentPartyId, hangupParty, hangupReason, localMedia,
      stoppedMedia, pcTracks, pcClosed, remoteCandidateBuffer, drainQueue,
      addedCandidates, rejectedCandidates, setRemoteCalls, negPc, sent, statePromiseMap, pcCall,
      pcAnswer, pcInvite, pcAnswerMsg, inviteLifetime, ringTimerMs, inviteClock, lastMsg,
      nCandMsgs, lastTerminate, lastHangup, iceConnectionState, candidateSendQueue,
      candTimers, candSends, failedCandidates, nLocalCands, setMediaCalls, trackCalls,
      lastSetMedia, nSetMedia, pcLocalTracks, remoteSDPStreamMetadata, remoteTracks, lastMetadata,
      disposed, cancelledDelays, path, observables, emitted>>

\* groups used in UNCHANGED
termVars == <<hangupParty, hangupReason, stoppedMedia, pcClosed, lastTerminate>>
candVars == <<remoteCandidateBuffer, drainQueue, addedCandidates, rejectedCandidates, nCandMsgs>>
procVars == <<pcCall, pcAnswer, pcInvite, pcAnswerMsg>>
ringVars == <<inviteLifetime, ringTimerMs>>
hostVars == <<lastHangup, iceConnectionState>>
queueVars == <<candidateSendQueue, candTimers, candSends, failedCandidates, nLocalCands>>
mediaVars == <<setMediaCalls, trackCalls, lastSetMedia, nSetMedia, pcLocalTracks>>
metadataVars == <<remoteSDPStreamMetadata, remoteTracks, lastMetadata>>
disposeVars == <<disposed, cancelledDelays>>
navVars == <<path, observables, emitted>>
\* every field setMedia and updateRemoteSDPStreamMetadata leave alone
callVars ==
    <<state, direction, opponentPartyId, termVars, pcTracks, candVars, setRemoteCalls,
      negPc, sent, statePromiseMap, procVars, ringVars, inviteClock, lastMsg, hostVars,
      queueVars, disposeVars>>

EmptyBuffer == [p \in PartyId |-> <<>>]

\* the fields of a constructed PeerCall other than localMedia
InitCall ==
    /\ state = "Fledgling"
    /\ direction = Undefined
    /\ opponentPartyId = Undefined
    /\ hangupParty = Undefined
    /\ hangupReason = Undefined
    /\ stoppedMedia = {}
    /\ pcTracks = {}
    /\ pcClosed = FALSE
    /\ remoteCandidateBuffer = [present |-> TRUE, map |-> EmptyBuffer]
    /\ drainQueue = <<>>
    /\ addedCandidates = <<>>
    /\ rejectedCandidates = {}
    /\ setRemoteCalls = 0
    /\ negPc = [k \in NegIds |-> "unborn"]
    /\ sent = <<>>
    /\ statePromiseMap = {}
    /\ pcCall = "idle"
    /\ pcAnswer = "idle"
    /\ pcInvite = "idle"
    /\ pcAnswerMsg = "idle"
    /\ inviteLifetime = NoLifetime
    /\ ringTimerMs = 0
    /\ inviteClock = "off"
    /\ lastMsg = <<"none", Undefined>>
    /\ nCandMsgs = 0
    /\ lastTerminate = NoCall
    /\ lastHangup = NoCall
    /\ iceConnectionState = "new"
    /\ candidateSendQueue = <<>>
    /\ candTimers = <<>>
    /\ candSends = {}
    /\ failedCandidates = {}
    /\ nLocalCands = 0
    /\ setMediaCalls = <<>>
    /\ trackCalls = <<>>
    /\ lastSetMedia = NoCall
    /\ nSetMedia = 0
    /\ remoteSDPStreamMetadata = NoMetadata
    /\ lastMetadata = NoCall
    /\ disposed = FALSE
    /\ cancelledDelays = {}
    /\ path = <<>>
    /\ observables = <<>>
    /\ emitted = <<>>

\* the constructor is given a LocalMedia, named here by who provided it; the
\* peer connection has no remote track yet
Init ==
    /\ InitCall
    /\ pcLocalTracks = {}
    /\ localMedia = "initial"
    /\ remoteTracks = <<>>

\* ------------------------------------------------------------- helpers

\* setState: assigns the state and resolves (and deletes) the deferred of that state
SetState(s, waiting) ==
    /\ state' = s
    /\ statePromiseMap' = waiting \ {s}

\* terminate(hangupParty, hangupReason, shouldEmit): the body is empty
Terminate(party, reason, shouldEmit) ==
    /\ lastTerminate' = <<party, reason, shouldEmit>>
    /\ UNCHANGED <<state, statePromiseMap, hangupParty, hangupReason, stoppedMedia, pcClosed>>

\* hangup(): the body is empty (and takes no reason)
Hangup(reason) ==
    /\ lastHangup' = <<reason, state>>
    /\ UNCHANGED <<state, statePromiseMap, termVars, sent>>

\* stopAllMedia: stop() on every track of the current localMedia
StopAllMedia == stoppedMedia \cup {localMedia}

\* media.getSDPMetadata(): the stream metadata of the tracks of a media handle
GetSDPMetadata(media) == <<"sdpStreamMetadata", media>>

\* as QueueIsSent, but the queue is also sent after the call has ended
QueueIsSentAlsoEnded(queue, st) == queue # <<>>

\* line 380: sendCandidateQueue() returns at once with an empty queue or in Ended
QueueIsSent(queue, st) == queue # <<>> /\ st # "Ended"

\* as SendCandidateQueue, but only the first queued candidate is taken
SendCandidateQueueHeadOnly(queue, st, msgs) ==
    IF QueueIsSent(queue, st)
    THEN /\ candidateSendQueue' = Tail(queue)
         /\ sent' = Append(msgs, <<"Candidates", <<Head(queue)>> >>)
         /\ candSends' = candSends \cup {<<Head(queue)>>}
    ELSE /\ candidateSendQueue' = queue
         /\ sent' = msgs
         /\ UNCHANGED candSends

\* sendCandidateQueue() up to `await sendSignallingMessage(candidatesMessage)`,
\* called with the queue `queue`, in state `st`, after the messages `msgs`:
\* the whole queue is taken out and handed over as one Candidates message
SendCandidateQueue(queue, st, msgs) ==
    IF QueueIsSent(queue, st)
    THEN /\ candidateSendQueue' = <<>>
         /\ sent' = Append(msgs, <<"Candidates", queue>>)
         /\ candSends' = candSends \cup {queue}
    ELSE /\ candidateSendQueue' = queue
         /\ sent' = msgs
         /\ UNCHANGED candSends


\* ------------------------------------------------------------- call()

\* line 102: call() goes on only in Fledgling
CallAccepted == state = "Fledgling"

\* call(localMediaPromise), up to `await localMediaPromise`
Call ==
    IF ~CallAccepted
    THEN UNCHANGED vars
    ELSE /\ direction' = "Outbound"
         /\ SetState("WaitLocalMedia", statePromiseMap)
         /\ pcCall' = "awaitMedia"
         /\ UNCHANGED <<opponentPartyId, termVars, localMedia, pcTracks, candVars,
                        setRemoteCalls, negPc, sent, pcAnswer, pcInvite, pcAnswerMsg,
                        ringVars, inviteClock, lastMsg,
                   hostVars, mediaVars, metadataVars, disposeVars, navVars, queueVars>>

\* call() resumes when the media promise settles
CallMediaSettled ==
    /\ pcCall = "awaitMedia"
    /\ \E ok \in BOOLEAN :
        IF ok
        THEN /\ localMedia' = "callMedia"
             \* setState(CreateOffer), then waitForState(InviteSent) registers a deferred
             /\ SetState("CreateOffer", statePromiseMap \cup {"InviteSent"})
             /\ pcTracks' = pcTracks \cup {"callMedia"}
             /\ pcCall' = "waitInviteSent"
        ELSE /\ SetState("Ended", statePromiseMap)
             /\ pcCall' = "done"
             /\ UNCHANGED <<localMedia, pcTracks>>
    /\ UNCHANGED <<direction, opponentPartyId, termVars, candVars, setRemoteCalls, negPc,
                   sent, pcAnswer, pcInvite, pcAnswerMsg, ringVars, inviteClock, lastMsg,
                   hostVars, mediaVars, metadataVars, disposeVars, navVars, queueVars>>

\* call() returns once the InviteSent deferred was resolved by setState
CallReturn ==
    /\ pcCall = "waitInviteSent"
    /\ "InviteSent" \notin statePromiseMap
    /\ pcCall' = "done"
    /\ UNCHANGED <<state, direction, opponentPartyId, termVars, localMedia, pcTracks,
                   candVars, setRemoteCalls, negPc, sent, statePromiseMap, pcAnswer,
                   pcInvite, pcAnswerMsg, ringVars, inviteClock, lastMsg,
                   hostVars, mediaVars, metadataVars, disposeVars, navVars, queueVars>>

\* ------------------------------------------------------------- answer()

\* as QueueAfterAnswer, but the queued candidates are kept
QueueKeptAfterAnswer == candidateSendQueue

\* line 342: sendAnswer() empties the queue, the queued candidates being in
\* the local description the answer was taken from
QueueAfterAnswer == <<>>

\* as AnswerAccepted, without the check of the state
AnswerAcceptedAnyState == TRUE

\* as AnswerAccepted, but answer() is also let through while Connecting
AnswerAcceptedAgain == state \in {"Ringing", "Connecting"}

\* line 122: answer() goes on only in Ringing
AnswerAccepted == state = "Ringing"

\* answer(localMediaPromise), up to `await localMediaPromise`
Answer ==
    IF ~AnswerAccepted
    THEN UNCHANGED vars
    ELSE /\ SetState("WaitLocalMedia", statePromiseMap)
         /\ pcAnswer' = "awaitMedia"
         /\ UNCHANGED <<direction, opponentPartyId, termVars, localMedia, pcTracks,
                        candVars, setRemoteCalls, negPc, sent, pcCall, pcInvite,
                        pcAnswerMsg, ringVars, inviteClock, lastMsg,
                   hostVars, mediaVars, metadataVars, disposeVars, navVars, queueVars>>

\* answer() resumes when the media promise settles; on success it adds the
\* tracks and calls peerConnection.createAnswer()
AnswerMediaSettled ==
    /\ pcAnswer = "awaitMedia"
    /\ \E ok \in BOOLEAN :
        IF ok
        THEN /\ localMedia' = "answerMedia"
             /\ SetState("CreateAnswer", statePromiseMap)
             /\ pcTracks' = pcTracks \cup {"answerMedia"}
             /\ pcAnswer' = "awaitCreateAnswer"
        ELSE /\ SetState("Ended", statePromiseMap)
             /\ pcAnswer' = "done"
             /\ UNCHANGED <<localMedia, pcTracks>>
    /\ UNCHANGED <<direction, opponentPartyId, termVars, candVars, setRemoteCalls, negPc,
                   sent, pcCall, pcInvite, pcAnswerMsg, ringVars, inviteClock, lastMsg,
                   hostVars, mediaVars, metadataVars, disposeVars, navVars, queueVars>>

\* createAnswer() settles: on success setLocalDescription(myAnswer) is called
AnswerCreated ==
    /\ pcAnswer = "awaitCreateAnswer"
    /\ \E ok \in BOOLEAN :
        IF ok
        THEN /\ pcAnswer' = "awaitSetLocal"
             /\ UNCHANGED <<state, statePromiseMap, termVars>>
        ELSE /\ Terminate("Local", "CreateAnswer", TRUE)
             /\ pcAnswer' = "done"
    /\ UNCHANGED <<direction, opponentPartyId, localMedia, pcTracks, candVars,
                   setRemoteCalls, negPc, sent, pcCall, pcInvite, pcAnswerMsg,
                   ringVars, inviteClock, lastMsg,
                   hostVars, mediaVars, metadataVars, disposeVars, navVars, queueVars>>

\* setLocalDescription(myAnswer) settles: Connecting, then delay(200)
AnswerLocalDescriptionSet ==
    /\ pcAnswer = "awaitSetLocal"
    /\ \E ok \in BOOLEAN :
        IF ok
        THEN /\ SetState("Connecting", statePromiseMap)
             /\ pcAnswer' = "awaitDelay"
             /\ UNCHANGED termVars
        ELSE /\ Terminate("Local", "SetLocalDescription", TRUE)
             /\ pcAnswer' = "done"
    /\ UNCHANGED <<direction, opponentPartyId, localMedia, pcTracks, candVars,
                   setRemoteCalls, negPc, sent, pcCall, pcInvite, pcAnswerMsg,
                   ringVars, inviteClock, lastMsg,
                   hostVars, mediaVars, metadataVars, disposeVars, navVars, queueVars>>

\* the 200 ms delay elapses: sendAnswer() hands the Answer to the handler
SendAnswer ==
    /\ pcAnswer = "awaitDelay"
    /\ sent' = Append(sent, <<"Answer", GetSDPMetadata(localMedia)>>)
    /\ candidateSendQueue' = QueueAfterAnswer
    /\ UNCHANGED candSends
    /\ pcAnswer' = "awaitSendAnswer"
    /\ UNCHANGED <<state, direction, opponentPartyId, termVars, localMedia, pcTracks,
                   candVars, setRemoteCalls, negPc, statePromiseMap, pcCall, pcInvite,
                   pcAnswerMsg, ringVars, inviteClock, lastMsg,
                   hostVars, mediaVars, metadataVars, disposeVars, navVars, candTimers, failedCandidates, nLocalCands>>

\* sendSignallingMessage(answerMessage) settles
AnswerSendSettled ==
    /\ pcAnswer = "awaitSendAnswer"
    /\ \E ok \in BOOLEAN :
        IF ok
        THEN \* line 353
             /\ SendCandidateQueue(candidateSendQueue, state, sent)
             /\ UNCHANGED <<state, statePromiseMap, termVars>>
        ELSE /\ Terminate("Local", "SendAnswer", FALSE)
             /\ UNCHANGED <<sent, candidateSendQueue, candSends>>
    /\ pcAnswer' = "done"
    /\ UNCHANGED <<direction, opponentPartyId, localMedia, pcTracks, candVars,
                   setRemoteCalls, negPc, pcCall, pcInvite, pcAnswerMsg,
                   ringVars, inviteClock, lastMsg,
                   hostVars, mediaVars, metadataVars, disposeVars, navVars, candTimers, failedCandidates, nLocalCands>>

\* ---------------------------------------------- onNegotiationNeeded chain

NegActive == {"awaitSetLocal", "awaitGather", "awaitSendInvite", "awaitTimeout"}

\* as ChainedBehind, but the task is never chained: it is started at once
NeverChained(k) == FALSE

\* line 72: responsePromiseChain is defined once a first callback was delivered,
\* and the new task is then chained behind it with then()
ChainedBehind(k) == k > 1

\* as NegotiationSendsInvite, without the check for CreateOffer
NegotiationSendsInviteAlways == TRUE

\* line 218: the Invite is sent only in CreateOffer
NegotiationSendsInvite == state = "CreateOffer"

\* onNegotiationNeeded(): the peer connection asks for a negotiation (it has
\* tracks); task k is started at once or chained behind task k-1
OnNegotiationNeeded ==
    /\ pcTracks # {}
    /\ \E k \in NegIds :
        /\ negPc[k] = "unborn"
        /\ \A j \in NegIds : j < k => negPc[j] # "unborn"
        \* a started task called peerConnection.setLocalDescription()
        /\ negPc' = [negPc EXCEPT ![k] = IF ChainedBehind(k) THEN "queued" ELSE "awaitSetLocal"]
    /\ UNCHANGED <<state, direction, opponentPartyId, termVars, localMedia, pcTracks,
                   candVars, setRemoteCalls, sent, statePromiseMap, procVars,
                   ringVars, inviteClock, lastMsg,
                   hostVars, mediaVars, metadataVars, disposeVars, navVars, queueVars>>

\* then(promiseCreator): task k starts when the promise of task k-1 is fulfilled
\* (never when it is rejected)
NegotiationStartChained ==
    /\ \E k \in NegIds :
        /\ k > 1
        /\ negPc[k] = "queued"
        /\ negPc[k - 1] = "done"
        /\ negPc' = [negPc EXCEPT ![k] = "awaitSetLocal"]
    /\ UNCHANGED <<state, direction, opponentPartyId, termVars, localMedia, pcTracks,
                   candVars, setRemoteCalls, sent, statePromiseMap, procVars,
                   ringVars, inviteClock, lastMsg,
                   hostVars, mediaVars, metadataVars, disposeVars, navVars, queueVars>>

\* as InviteMetadata, but of the media the call was constructed with
InviteMetadataOfInitialMedia == GetSDPMetadata("initial")

\* line 214: the Invite carries the stream metadata of the current localMedia
InviteMetadata == GetSDPMetadata(localMedia)

\* as QueueAfterOffer, but the queued candidates are kept
QueueKeptAfterOffer == candidateSendQueue

\* line 209: handleNegotiation empties the queue, the queued candidates being
\* in the local description the offer is taken from
QueueAfterOffer == <<>>

\* handleNegotiation lines 200-230, from the Ended check to the next await
NegotiationBody(k) ==
    IF state = "Ended"
    THEN /\ negPc' = [negPc EXCEPT ![k] = "done"]
         /\ UNCHANGED <<sent, inviteClock, candidateSendQueue, candSends>>
    ELSE IF NegotiationSendsInvite
    THEN /\ candidateSendQueue' = QueueAfterOffer
         /\ sent' = Append(sent, <<"Invite", InviteMetadata>>)
         /\ negPc' = [negPc EXCEPT ![k] = "awaitSendInvite"]
         /\ UNCHANGED <<inviteClock, candSends>>
    ELSE \* line 209, then sendCandidateQueue() at line 222 with the queue just
         \* emptied; the state is not CreateOffer at line 224
         /\ SendCandidateQueue(QueueAfterOffer, state, sent)
         /\ negPc' = [negPc EXCEPT ![k] = "done"]
         /\ UNCHANGED inviteClock

\* setLocalDescription() of task k settles
NegotiationLocalDescriptionSet ==
    /\ \E k \in NegIds :
        /\ negPc[k] = "awaitSetLocal"
        /\ \E ok \in BOOLEAN, gathering \in BOOLEAN :
            IF ~ok
            THEN /\ Terminate("Local", "SetLocalDescription", TRUE)
                 /\ negPc' = [negPc EXCEPT ![k] = "done"]
                 /\ UNCHANGED <<sent, inviteClock, candidateSendQueue, candSends>>
            ELSE IF gathering
            THEN \* iceGatheringState === 'gathering': delay(200)
                 /\ negPc' = [negPc EXCEPT ![k] = "awaitGather"]
                 /\ UNCHANGED <<state, statePromiseMap, termVars, sent, inviteClock,
                                candidateSendQueue, candSends>>
            ELSE /\ NegotiationBody(k)
                 /\ UNCHANGED <<state, statePromiseMap, termVars>>
    /\ UNCHANGED <<direction, opponentPartyId, localMedia, pcTracks, candVars,
                   setRemoteCalls, procVars, ringVars, lastMsg,
                   hostVars, mediaVars, metadataVars, disposeVars, navVars, candTimers, failedCandidates, nLocalCands>>

\* the 200 ms gathering delay of task k elapses
NegotiationGatherElapsed ==
    /\ \E k \in NegIds :
        /\ negPc[k] = "awaitGather"
        /\ NegotiationBody(k)
    /\ UNCHANGED <<state, statePromiseMap, termVars, direction, opponentPartyId,
                   localMedia, pcTracks, candVars, setRemoteCalls, procVars,
                   ringVars, lastMsg,
                   hostVars, mediaVars, metadataVars, disposeVars, navVars, candTimers, failedCandidates, nLocalCands>>

\* sendSignallingMessage(Invite) of task k settles: lines 219-230.  A rejection
\* is not caught: the task's promise is rejected.
NegotiationInviteSendSettled ==
    /\ \E k \in NegIds :
        /\ negPc[k] = "awaitSendInvite"
        /\ \E ok \in BOOLEAN :
            IF ok
            THEN /\ SetState("InviteSent", statePromiseMap)
                 /\ inviteClock' = IF inviteClock = "off" THEN "running" ELSE inviteClock
                 \* line 222, in the state just assigned
                 /\ SendCandidateQueue(candidateSendQueue, "InviteSent", sent)
                 \* line 224 reads the state just assigned at line 220
                 /\ negPc' = [negPc EXCEPT ![k] =
                        IF state' = "CreateOffer" THEN "awaitTimeout" ELSE "done"]
            ELSE /\ negPc' = [negPc EXCEPT ![k] = "failed"]
                 /\ UNCHANGED <<state, statePromiseMap, inviteClock, sent,
                                candidateSendQueue, candSends>>
    /\ UNCHANGED <<direction, opponentPartyId, termVars, localMedia, pcTracks, candVars,
                   setRemoteCalls, procVars, ringVars, lastMsg,
                   hostVars, mediaVars, metadataVars, disposeVars, navVars, candTimers, failedCandidates, nLocalCands>>

\* CALL_TIMEOUT_MS have passed since InviteSent was entered.  A task waiting in
\* delay(CALL_TIMEOUT_MS) (line 225) resumes: if still InviteSent, hangup().
InviteTimeoutElapsed ==
    /\ inviteClock = "running"
    /\ inviteClock' = "elapsed"
    /\ negPc' = [k \in NegIds |-> IF negPc[k] = "awaitTimeout" THEN "done" ELSE negPc[k]]
    /\ IF (\E k \in NegIds : negPc[k] = "awaitTimeout") /\ state = "InviteSent"
       THEN Hangup("InviteTimeout")
       ELSE UNCHANGED <<state, statePromiseMap, termVars, sent, lastHangup>>
    /\ UNCHANGED <<direction, opponentPartyId, localMedia, pcTracks, candVars,
                   setRemoteCalls, procVars, ringVars, lastMsg,
                   iceConnectionState, mediaVars, metadataVars, disposeVars, navVars, queueVars>>

\* ------------------------------------------------- remote ICE candidates

\* line 423: the buffer is looked at only when both it and the opponent party
\* id are truthy (the legacy party id null is not)
BufferDrains(opponent) == remoteCandidateBuffer.present /\ opponent # NullParty

\* RTCIceCandidate: <<sender, number, sdpMid, sdpMLineIndex>>; Undefined stands
\* for a field that is null or undefined
SdpMids == {Undefined, "0"}
SdpMLineIndexes == {Undefined, "0"}

\* lines 436-439: the candidates that addIceCandidates leaves out
IgnoredWithoutSdpMid(candidate) == candidate[3] = Undefined
Ignored(candidate) == candidate[3] = Undefined /\ candidate[4] = Undefined

\* the loop of lines 435-442 up to the next candidate it does not leave out
RECURSIVE SkipIgnored(_)
SkipIgnored(candidates) ==
    IF candidates = <<>> THEN <<>>
    ELSE IF Ignored(Head(candidates)) THEN SkipIgnored(Tail(candidates))
    ELSE candidates

\* addBufferedIceCandidates / addIceCandidates up to the first await: the
\* candidates buffered for the opponent, the first of which that is not left
\* out is passed to addIceCandidate at once; with none to add the buffer is
\* dropped at once
AddBufferedIceCandidates(opponent) ==
    LET buffered == IF BufferDrains(opponent)
                    THEN SkipIgnored(remoteCandidateBuffer.map[opponent]) ELSE <<>>
    IN  /\ IF buffered # <<>>
           THEN /\ drainQueue' = buffered
                /\ addedCandidates' = Append(addedCandidates, Head(buffered))
                /\ UNCHANGED remoteCandidateBuffer
           ELSE /\ drainQueue' = <<>>
                /\ remoteCandidateBuffer' =
                       IF BufferDrains(opponent)
                       THEN [present |-> FALSE, map |-> EmptyBuffer]
                       ELSE remoteCandidateBuffer
                /\ UNCHANGED addedCandidates
        /\ UNCHANGED rejectedCandidates

\* addIceCandidates: the addIceCandidate call in flight settles (a rejection is
\* caught at line 446 and only logged); the next candidate that is not left
\* out is passed on, or the loop ends and addBufferedIceCandidates drops the
\* buffer (line 430)
AddIceCandidateSettled ==
    /\ drainQueue # <<>>
    /\ \E ok \in BOOLEAN :
         rejectedCandidates' =
            IF ok THEN rejectedCandidates
            ELSE rejectedCandidates \cup {Head(drainQueue)}
    /\ LET rest == SkipIgnored(Tail(drainQueue))
       IN  /\ drainQueue' = rest
           /\ IF rest # <<>>
              THEN /\ addedCandidates' = Append(addedCandidates, Head(rest))
                   /\ UNCHANGED remoteCandidateBuffer
              ELSE /\ remoteCandidateBuffer' = [present |-> FALSE, map |-> EmptyBuffer]
                   /\ UNCHANGED addedCandidates
    /\ UNCHANGED <<state, direction, opponentPartyId, termVars, localMedia, pcTracks,
                   nCandMsgs, setRemoteCalls, negPc, sent, statePromiseMap, procVars,
                   ringVars, inviteClock, lastMsg,
                   hostVars, mediaVars, metadataVars, disposeVars, navVars, queueVars>>

\* handleRemoteIceCandidates(content, partyId): buffered under the sender while
\* no opponent is committed, given to addIceCandidates when the sender is the
\* opponent, else dropped
HandleRemoteIceCandidates(content, p) ==
    /\ nCandMsgs < MaxCandidates
    /\ nCandMsgs' = nCandMsgs + 1
    /\ lastMsg' = <<"Candidates", p>>
    /\ LET c == <<p, nCandMsgs + 1, content.sdpMid, content.sdpMLineIndex>>
       IN  IF opponentPartyId = Undefined
           THEN /\ remoteCandidateBuffer' =
                      [remoteCandidateBuffer EXCEPT !.map[p] = Append(@, c)]
                /\ UNCHANGED addedCandidates
           ELSE IF opponentPartyId = p /\ ~Ignored(c)
           THEN /\ addedCandidates' = Append(addedCandidates, c)
                /\ UNCHANGED remoteCandidateBuffer
           ELSE UNCHANGED <<remoteCandidateBuffer, addedCandidates>>
    /\ UNCHANGED <<state, direction, opponentPartyId, termVars, localMedia, pcTracks,
                   drainQueue, rejectedCandidates, setRemoteCalls, negPc, sent,
                   statePromiseMap, procVars, ringVars, inviteClock,
                   hostVars, mediaVars, metadataVars, disposeVars, navVars, queueVars>>

\* ------------------------------------------- remote stream metadata

StreamIds == {"s1", "s2"}
SDPStreamMetadataPurpose == {"Usermedia", "Screenshare"}

\* what a stream id maps to in an SDPStreamMetadata
StreamMetadata ==
    [purpose : SDPStreamMetadataPurpose, audio_muted : BOOLEAN, video_muted : BOOLEAN]

\* the sdp_stream_metadata of a message: some stream ids, each with its metadata
SDPStreamMetadata ==
    UNION {[ids -> StreamMetadata] : ids \in (SUBSET StreamIds) \ {{}}}

\* the registry, {} when remoteSDPStreamMetadata is undefined (`|| {}`, 406)
Registry == IF remoteSDPStreamMetadata = NoMetadata THEN <<>> ELSE remoteSDPStreamMetadata[1]

\* mutation of getPurposeForStreamId: a stream that is not recorded is a screen share
GetPurposeDefaultScreenshare(registry, streamId) ==
    IF streamId \in DOMAIN registry THEN registry[streamId].purpose ELSE "Screenshare"

\* getPurposeForStreamId(streamId) (74-76), registry being what
\* outer.remoteSDPStreamMetadata holds when it is called
GetPurposeForStreamId(registry, streamId) ==
    IF streamId \in DOMAIN registry THEN registry[streamId].purpose ELSE "Usermedia"

\* recursivelyAssign(target, source, true) on two stream metadata maps: the
\* entries of source are written over those of target, stream id by stream id
RecursivelyAssign(target, source) ==
    [id \in DOMAIN target \cup DOMAIN source |->
        IF id \in DOMAIN source THEN source[id] ELSE target[id]]

\* the type the peer connection gives a remote track of a kind when it asks
\* getPurposeForStreamId again (notifyStreamPurposeChanged, 407-408)
TrackTypeOf(kind, purpose) ==
    IF purpose = "Screenshare" THEN "ScreenShare"
    ELSE IF kind = "audio" THEN "Microphone" ELSE "Camera"

\* the remote tracks of a peer connection: an audio and a video track, each
\* of some stream, typed with no metadata recorded, not muted
RemoteTrackLists ==
    {<<[streamId |-> a, kind |-> "audio", type |-> "Microphone", muted |-> FALSE],
       [streamId |-> v, kind |-> "video", type |-> "Camera", muted |-> FALSE]>> :
        a \in StreamIds, v \in StreamIds}

\* updateRemoteSDPStreamMetadata(metadata) (405-419)
UpdateRemoteSDPStreamMetadata(metadata) ==
    /\ LET assigned == RecursivelyAssign(Registry, metadata)
       IN  /\ remoteSDPStreamMetadata' = <<assigned>>
           /\ remoteTracks' =
                 [k \in DOMAIN remoteTracks |->
                     LET track == remoteTracks[k]
                         type == TrackTypeOf(track.kind,
                                             GetPurposeForStreamId(assigned, track.streamId))
                     IN  [track EXCEPT
                             !.type = type,
                             !.muted = IF track.streamId \in DOMAIN assigned
                                       THEN IF type = "Microphone"
                                            THEN assigned[track.streamId].audio_muted
                                            ELSE assigned[track.streamId].video_muted
                                       ELSE @]]
    /\ lastMetadata' = <<metadata, lastMetadata # NoCall /\ lastMetadata[1] = metadata>>

\* updateRemoteSDPStreamMetadata applied on its own
MetadataUpdated(metadata) ==
    /\ UpdateRemoteSDPStreamMetadata(metadata)
    /\ UNCHANGED <<localMedia, mediaVars, callVars, navVars>>

\* ------------------------------------------------------- handleInvite()

\* as InviteAccepted, without the check for a committed opponent
InviteAcceptedInFledgling == state = "Fledgling"

\* line 234: an Invite is looked at only in Fledgling with no opponent committed
InviteAccepted == state = "Fledgling" /\ opponentPartyId = Undefined

\* as InviteExpired, without the re-check of the state after the delay
InviteExpiredUnchecked == TRUE

\* line 276: the expiry acts only if the call is still Ringing
InviteExpired == state = "Ringing"

\* handleInvite(content, partyId) up to `await setRemoteDescription(content.offer)`;
\* sdpStreamMetadata is content.sdp_stream_metadata, <<>> when the content
\* has none
HandleInvite(p, lifetime, sdpStreamMetadata) ==
    /\ lastMsg' = <<"Invite", p>>
    /\ IF ~InviteAccepted
       THEN UNCHANGED <<opponentPartyId, direction, setRemoteCalls, pcInvite, inviteLifetime,
                        metadataVars>>
       ELSE /\ opponentPartyId' = p
            /\ direction' = "Inbound"
            /\ IF sdpStreamMetadata # NoMetadata
               THEN UpdateRemoteSDPStreamMetadata(sdpStreamMetadata[1])
               ELSE UNCHANGED metadataVars
            /\ setRemoteCalls' = setRemoteCalls + 1
            /\ inviteLifetime' = lifetime
            /\ pcInvite' = "awaitSetRemote"
    /\ UNCHANGED <<state, termVars, localMedia, pcTracks, candVars, negPc, sent,
                   statePromiseMap, pcCall, pcAnswer, pcAnswerMsg, ringTimerMs, inviteClock,
                   hostVars, mediaVars, disposeVars, navVars, queueVars>>

\* setRemoteDescription(offer) settles; on success addBufferedIceCandidates()
InviteRemoteDescriptionSet ==
    /\ pcInvite = "awaitSetRemote"
    /\ \E ok \in BOOLEAN :
        IF ok
        THEN /\ AddBufferedIceCandidates(opponentPartyId)
             /\ pcInvite' = "awaitAddBuffered"
             /\ UNCHANGED <<state, statePromiseMap, termVars>>
        ELSE /\ Terminate("Local", "SetRemoteDescription", FALSE)
             /\ pcInvite' = "done"
             /\ UNCHANGED <<remoteCandidateBuffer, drainQueue, addedCandidates,
                            rejectedCandidates>>
    /\ UNCHANGED <<direction, opponentPartyId, localMedia, pcTracks, nCandMsgs,
                   setRemoteCalls, negPc, sent, pcCall, pcAnswer, pcAnswerMsg, ringVars,
                   inviteClock, lastMsg,
                   hostVars, mediaVars, metadataVars, disposeVars, navVars, queueVars>>

\* addBufferedIceCandidates() returned: lines 266-274, the remote-track check,
\* Ringing, and the expiry delay
InviteBufferedAdded ==
    /\ pcInvite = "awaitAddBuffered"
    /\ drainQueue = <<>>
    /\ \E hasRemoteTracks \in BOOLEAN :
        IF hasRemoteTracks
        THEN /\ SetState("Ringing", statePromiseMap)
             \* content.lifetime ?? CALL_TIMEOUT_MS
             /\ ringTimerMs' = IF inviteLifetime = NoLifetime
                               THEN CALL_TIMEOUT_MS ELSE inviteLifetime[1]
             /\ pcInvite' = "awaitLifetime"
             /\ UNCHANGED termVars
        ELSE /\ Terminate("Local", "SetRemoteDescription", FALSE)
             /\ pcInvite' = "done"
             /\ UNCHANGED ringTimerMs
    /\ UNCHANGED <<direction, opponentPartyId, localMedia, pcTracks, candVars,
                   setRemoteCalls, negPc, sent, pcCall, pcAnswer, pcAnswerMsg,
                   inviteLifetime, inviteClock, lastMsg,
                   hostVars, mediaVars, metadataVars, disposeVars, navVars, queueVars>>

\* the expiry delay elapses: lines 276-284
InviteLifetimeElapsed ==
    /\ pcInvite = "awaitLifetime"
    /\ pcInvite' = "done"
    /\ IF InviteExpired
       THEN /\ hangupParty' = "Remote"
            /\ SetState("Ended", statePromiseMap)
            /\ stoppedMedia' = StopAllMedia
            /\ pcClosed' = TRUE
            /\ UNCHANGED <<hangupReason, lastTerminate>>
       ELSE UNCHANGED <<state, statePromiseMap, termVars>>
    /\ UNCHANGED <<direction, opponentPartyId, localMedia, pcTracks, candVars,
                   setRemoteCalls, negPc, sent, pcCall, pcAnswer, pcAnswerMsg, ringVars,
                   inviteClock, lastMsg,
                   hostVars, mediaVars, metadataVars, disposeVars, navVars, queueVars>>

\* ------------------------------------------------------- handleAnswer()

\* as AnswerIgnored, without the check for a committed opponent
AnswerIgnoredOnlyEnded(p) == state = "Ended"

\* as AnswerIgnored, without the check for Ended
AnswerIgnoredOnlyCommitted(p) == opponentPartyId # Undefined

\* lines 290-302: an Answer is dropped when the call has ended or an opponent
\* is already committed
AnswerIgnored(p) == state = "Ended" \/ opponentPartyId # Undefined

\* handleAnswer(content, partyId) up to `await addBufferedIceCandidates()`
HandleAnswer(p) ==
    /\ lastMsg' = <<"Answer", p>>
    /\ IF AnswerIgnored(p)
       THEN UNCHANGED <<opponentPartyId, remoteCandidateBuffer, drainQueue,
                        addedCandidates, rejectedCandidates, pcAnswerMsg>>
       ELSE /\ opponentPartyId' = p
            /\ AddBufferedIceCandidates(p)
            /\ pcAnswerMsg' = "awaitAddBuffered"
    /\ UNCHANGED <<state, direction, termVars, localMedia, pcTracks, nCandMsgs,
                   setRemoteCalls, negPc, sent, statePromiseMap, pcCall, pcAnswer,
                   pcInvite, ringVars, inviteClock,
                   hostVars, mediaVars, metadataVars, disposeVars, navVars, queueVars>>

\* addBufferedIceCandidates() returned: Connecting, then setRemoteDescription(answer)
AnswerBufferedAdded ==
    /\ pcAnswerMsg = "awaitAddBuffered"
    /\ drainQueue = <<>>
    /\ SetState("Connecting", statePromiseMap)
    /\ setRemoteCalls' = setRemoteCalls + 1
    /\ pcAnswerMsg' = "awaitSetRemote"
    /\ UNCHANGED <<direction, opponentPartyId, termVars, localMedia, pcTracks, candVars,
                   negPc, sent, pcCall, pcAnswer, pcInvite, ringVars, inviteClock, lastMsg,
                   hostVars, mediaVars, metadataVars, disposeVars, navVars, queueVars>>

\* setRemoteDescription(answer) settles
AnswerRemoteDescriptionSet ==
    /\ pcAnswerMsg = "awaitSetRemote"
    /\ pcAnswerMsg' = "done"
    /\ \E ok \in BOOLEAN :
        IF ok
        THEN UNCHANGED <<state, statePromiseMap, termVars>>
        ELSE Terminate("Local", "SetRemoteDescription", FALSE)
    /\ UNCHANGED <<direction, opponentPartyId, localMedia, pcTracks, candVars,
                   setRemoteCalls, negPc, sent, pcCall, pcAnswer, pcInvite, ringVars,
                   inviteClock, lastMsg,
                   hostVars, mediaVars, metadataVars, disposeVars, navVars, queueVars>>

\* --------------------------------------- handleIncomingSignallingMessage

\* case EventType.Hangup: the case is empty
HandleHangup(p) ==
    /\ lastMsg' = <<"Hangup", p>>
    /\ UNCHANGED <<state, direction, opponentPartyId, termVars, localMedia, pcTracks,
                   candVars, setRemoteCalls, negPc, sent, statePromiseMap, procVars,
                   ringVars, inviteClock,
                   hostVars, mediaVars, metadataVars, disposeVars, navVars, queueVars>>

\* SignallingMessage: the type, and of the content what the handlers read
\* (an Answer is given without stream metadata)
InviteMessages ==
    {[type |-> "Invite", lifetime |-> l, sdp_stream_metadata |-> NoMetadata] : l \in Lifetimes}
\* Invites with and without stream metadata
InviteStreamMetadata ==
    {m \in SDPStreamMetadata :
        DOMAIN m = {"s1"} /\ ~m["s1"].audio_muted /\ ~m["s1"].video_muted}
InviteMessagesWithMetadata ==
    {[type |-> "Invite", lifetime |-> NoLifetime, sdp_stream_metadata |-> md] :
        md \in {NoMetadata} \cup {<<m>> : m \in InviteStreamMetadata}}
AnswerMessages == {[type |-> "Answer"]}
\* a Candidates message with one candidate that has an sdpMid and an sdpMLineIndex
CandidatesMessages == {[type |-> "Candidates", sdpMid |-> "0", sdpMLineIndex |-> "0"]}
\* Candidates messages whose candidate has either field set or unset
AnyCandidatesMessages ==
    {[type |-> "Candidates", sdpMid |-> m, sdpMLineIndex |-> i] :
        m \in SdpMids, i \in SdpMLineIndexes}
HangupMessages == {[type |-> "Hangup"]}

\* handleIncomingSignallingMessage(message, partyId): the switch on message.type
HandleIncomingSignallingMessage(message, partyId) ==
    CASE message.type = "Invite" ->
            HandleInvite(partyId, message.lifetime, message.sdp_stream_metadata)
      [] message.type = "Answer" -> HandleAnswer(partyId)
      [] message.type = "Candidates" -> HandleRemoteIceCandidates(message, partyId)
      [] message.type = "Hangup" -> HandleHangup(partyId)

\* the host delivers one of `messages` from some party
Deliver(messages) ==
    \E message \in messages, partyId \in PartyId :
        HandleIncomingSignallingMessage(message, partyId)

\* ------------------------------------------- hangup(), host callbacks

\* what the host passes to hangup()
HangupReasons == {"UserHangup"}

\* the host calls hangup(reason)
HangupCalled ==
    /\ \E reason \in HangupReasons : Hangup(reason)
    /\ UNCHANGED <<direction, opponentPartyId, localMedia, pcTracks, candVars,
                   setRemoteCalls, negPc, procVars, ringVars, inviteClock, lastMsg,
                   iceConnectionState, mediaVars, metadataVars, disposeVars, navVars, queueVars>>

\* RTCIceConnectionState, as far as the call tells the values apart
IceConnectionStates == {"new", "checking", "connected", "failed"}

\* onIceConnectionStateChange(state): the callback has an empty body
OnIceConnectionStateChange ==
    /\ \E iceState \in IceConnectionStates \ {iceConnectionState} :
            iceConnectionState' = iceState
    /\ UNCHANGED <<state, direction, opponentPartyId, termVars, localMedia, pcTracks,
                   candVars, setRemoteCalls, negPc, sent, statePromiseMap, procVars,
                   ringVars, inviteClock, lastMsg, lastHangup, mediaVars, metadataVars, disposeVars, navVars, queueVars>>

\* ------------------------------------------------- outbound candidate queue

\* line 373: the delay before the queue is sent
CandidateDelayMs == IF direction = "Inbound" THEN 500 ELSE 2000

\* queueCandidate(content): the candidate is queued and, unless the call is
\* Ringing, a delay is armed after which sendCandidateQueue() is called
QueueCandidate ==
    /\ nLocalCands < MaxLocalCandidates
    /\ nLocalCands' = nLocalCands + 1
    /\ candidateSendQueue' = Append(candidateSendQueue, nLocalCands + 1)
    /\ candTimers' = IF state = "Ringing"
                     THEN candTimers
                     ELSE Append(candTimers, <<CandidateDelayMs, nLocalCands + 1>>)
    /\ UNCHANGED <<state, direction, opponentPartyId, termVars, localMedia, pcTracks,
                   candVars, setRemoteCalls, negPc, sent, statePromiseMap, procVars,
                   ringVars, inviteClock, lastMsg, hostVars, mediaVars, metadataVars, disposeVars, navVars,
                   candSends, failedCandidates>>

\* one of the armed delays elapses: sendCandidateQueue().  A delay elapses
\* before one armed earlier only if it is shorter.
CandidateDelayElapsed ==
    /\ \E i \in DOMAIN candTimers :
            /\ \A j \in 1..(i - 1) : candTimers[j][1] > candTimers[i][1]
            /\ candTimers' = SubSeq(candTimers, 1, i - 1)
                            \o SubSeq(candTimers, i + 1, Len(candTimers))
    /\ SendCandidateQueue(candidateSendQueue, state, sent)
    /\ UNCHANGED <<state, direction, opponentPartyId, termVars, localMedia, pcTracks,
                   candVars, setRemoteCalls, negPc, statePromiseMap, procVars,
                   ringVars, inviteClock, lastMsg, hostVars, mediaVars, metadataVars, disposeVars, navVars,
                   failedCandidates, nLocalCands>>

\* sendSignallingMessage(candidatesMessage) settles: on success the queue is
\* looked at again (line 396), on failure terminate() is called (line 401)
CandidatesSendSettled ==
    /\ \E batch \in candSends, ok \in BOOLEAN :
        /\ IF ok
           THEN /\ candSends' = (candSends \ {batch}) \cup
                        (IF QueueIsSent(candidateSendQueue, state)
                         THEN {candidateSendQueue} ELSE {})
                /\ candidateSendQueue' =
                        IF QueueIsSent(candidateSendQueue, state)
                        THEN <<>> ELSE candidateSendQueue
                /\ sent' = IF QueueIsSent(candidateSendQueue, state)
                           THEN Append(sent, <<"Candidates", candidateSendQueue>>)
                           ELSE sent
                /\ UNCHANGED <<state, statePromiseMap, termVars, failedCandidates>>
           ELSE /\ candSends' = candSends \ {batch}
                /\ Terminate("Local", "SignallingFailed", FALSE)
                /\ failedCandidates' = failedCandidates \cup {batch[i] : i \in DOMAIN batch}
                /\ UNCHANGED <<candidateSendQueue, sent>>
    /\ UNCHANGED <<direction, opponentPartyId, localMedia, pcTracks, candVars,
                   setRemoteCalls, negPc, procVars, ringVars, inviteClock, lastMsg,
                   hostVars, mediaVars, metadataVars, disposeVars, navVars, candTimers, nLocalCands>>

\* ------------------------------------------------------ delay(), dispose()

\* The timeouts created through delay() that have not elapsed, which are the
\* ones the disposables track (491-493), each named by the await it gates:
\* the 200 ms before the Answer (155), the 200 ms of gathering of task k (197),
\* the invite timeout of task k (225), the Ringing expiry (274) and the
\* trickle delay armed for candidate c (373).
LiveDelays ==
    (IF pcAnswer = "awaitDelay" THEN {<<"answer", 0>>} ELSE {})
    \cup {<<"gather", k>> : k \in {j \in NegIds : negPc[j] = "awaitGather"}}
    \cup {<<"inviteTimeout", k>> : k \in {j \in NegIds : negPc[j] = "awaitTimeout"}}
    \cup (IF pcInvite = "awaitLifetime" THEN {<<"expiry", 0>>} ELSE {})
    \cup {<<"candidate", candTimers[i][2]>> : i \in DOMAIN candTimers}

\* disposables.dispose(): every tracked timeout is aborted; what awaits its
\* elapsed() is never resumed
DisposablesDispose ==
    /\ pcAnswer' = IF pcAnswer = "awaitDelay" THEN "cancelled" ELSE pcAnswer
    /\ negPc' = [k \in NegIds |->
                    IF negPc[k] \in {"awaitGather", "awaitTimeout"}
                    THEN "cancelled" ELSE negPc[k]]
    /\ pcInvite' = IF pcInvite = "awaitLifetime" THEN "cancelled" ELSE pcInvite
    /\ candTimers' = <<>>

\* mutation of DisposePeerCall: the disposables are left alone
DisposeWithoutDisposables ==
    UNCHANGED <<pcAnswer, negPc, pcInvite, candTimers>>

\* the body of dispose() (496-499)
DisposePeerCall == DisposablesDispose

\* dispose(), which ends the life of the PeerCall: it is called once
Dispose ==
    /\ ~disposed
    /\ disposed' = TRUE
    /\ cancelledDelays' = LiveDelays
    /\ DisposePeerCall
    /\ UNCHANGED <<state, direction, opponentPartyId, termVars, localMedia, pcTracks,
                   candVars, setRemoteCalls, sent, statePromiseMap, pcCall, pcAnswerMsg,
                   ringVars, inviteClock, lastMsg, hostVars, mediaVars, metadataVars,
                   navVars, candidateSendQueue, candSends, failedCandidates, nLocalCands>>

\* ------------------------------------------------------------- setMedia()

\* a role of a LocalMedia that has no track
NoTrack == <<>>

\* the three track properties of a LocalMedia
TrackRoles == {"microphoneTrack", "cameraTrack", "screenShareTrack"}

\* A LocalMedia as setMedia sees it: its three track properties, each a track
\* or undefined.  A track is <<id of the media that holds it, role>>, so two
\* different media share no track and a media compared with itself shares all.
MediaIds == {1, 2}
LocalMediaOf(id, mic, cam, screen) ==
    [microphoneTrack |-> IF mic THEN <<id, "microphoneTrack">> ELSE NoTrack,
     cameraTrack |-> IF cam THEN <<id, "cameraTrack">> ELSE NoTrack,
     screenShareTrack |-> IF screen THEN <<id, "screenShareTrack">> ELSE NoTrack]
Medias ==
    {LocalMediaOf(id, mic, cam, screen) :
        id \in MediaIds, mic \in BOOLEAN, cam \in BOOLEAN, screen \in BOOLEAN}

\* a sequence without its i-th element
RemoveAt(seq, i) == SubSeq(seq, 1, i - 1) \o SubSeq(seq, i + 1, Len(seq))

\* mutation of ApplyTrack: a track that takes the place of another is added
ApplyTrackAddsOverOld(oldTrack, newTrack) ==
    IF newTrack # NoTrack THEN << <<"addTrack", newTrack>> >>
    ELSE IF oldTrack # NoTrack THEN << <<"removeTrack", oldTrack>> >>
    ELSE <<>>

\* applyTrack (167-177): the peer-connection calls made for one role
ApplyTrack(oldTrack, newTrack) ==
    IF oldTrack # NoTrack /\ newTrack # NoTrack
    THEN << <<"replaceTrack", oldTrack, newTrack>> >>
    ELSE IF oldTrack # NoTrack THEN << <<"removeTrack", oldTrack>> >>
    ELSE IF newTrack # NoTrack THEN << <<"addTrack", newTrack>> >>
    ELSE <<>>

\* the tracks of a LocalMedia
TracksOf(media) == {media[role] : role \in TrackRoles} \ {NoTrack}

\* PeerConnection.addTrack / removeTrack / replaceTrack on the set of attached
\* local tracks: removeTrack and replaceTrack of a track that is not attached
\* change nothing (they return false)
PeerConnectionCall(tracks, call) ==
    IF call[1] = "addTrack" THEN tracks \cup {call[2]}
    ELSE IF call[1] = "removeTrack" THEN tracks \ {call[2]}
    ELSE IF call[2] \in tracks THEN (tracks \ {call[2]}) \cup {call[3]}
    ELSE tracks

\* a sequence of peer-connection calls, in order
RECURSIVE PeerConnectionCalls(_, _)
PeerConnectionCalls(tracks, calls) ==
    IF calls = <<>> THEN tracks
    ELSE PeerConnectionCalls(PeerConnectionCall(tracks, Head(calls)), Tail(calls))

\* setMedia(localMediaPromise) up to its await: oldMedia is read (164) before
\* the promise is awaited (165).  Calls may overlap.
SetMedia ==
    /\ nSetMedia < MaxSetMedia
    /\ \E media \in Medias :
            setMediaCalls' = Append(setMediaCalls, <<localMedia, media>>)
    /\ nSetMedia' = nSetMedia + 1
    /\ UNCHANGED <<localMedia, trackCalls, lastSetMedia, pcLocalTracks, callVars,
                   metadataVars, navVars>>

\* setMedia resumed: the media is assigned (165) and applyTrack runs for the
\* microphone, the camera and the screen share (180-182).  A rejected promise
\* throws out of setMedia before anything is assigned.
SetMediaSettled ==
    /\ \E i \in DOMAIN setMediaCalls, ok \in BOOLEAN :
            LET oldMedia == setMediaCalls[i][1]
                media == setMediaCalls[i][2]
                    calls ==
                        ApplyTrack(oldMedia.microphoneTrack, media.microphoneTrack)
                        \o ApplyTrack(oldMedia.cameraTrack, media.cameraTrack)
                        \o ApplyTrack(oldMedia.screenShareTrack, media.screenShareTrack)
            IN  /\ setMediaCalls' = RemoveAt(setMediaCalls, i)
                /\ IF ok
                   THEN /\ localMedia' = media
                        /\ trackCalls' = calls
                        /\ pcLocalTracks' = PeerConnectionCalls(pcLocalTracks, calls)
                        /\ lastSetMedia' = <<media>>
                   ELSE /\ trackCalls' = <<>>
                        /\ lastSetMedia' = NoCall
                        /\ UNCHANGED <<localMedia, pcLocalTracks>>
    /\ UNCHANGED <<nSetMedia, callVars, metadataVars, navVars>>

\* ------------------------------------------------------------- Navigation
\* (src/src/domain/navigation/Navigation.js)

SegmentTypes == {"1", "2", "2.2"}

\* new Segment(type, value): an undefined value becomes true (108-111)
Segment(type, value) == <<type, IF value = Undefined THEN "true" ELSE value>>

Segments == {Segment(type, value) : type \in SegmentTypes, value \in {Undefined, "7"}}

\* the paths given to applyPath: up to two segments
Paths == {<<>>} \cup {<<s>> : s \in Segments} \cup {<<s, t>> : s \in Segments, t \in Segments}

\* Path.get(type) (147-149): the first segment of the type; here its index,
\* 0 when there is none
PathGet(segments, type) ==
    IF \E i \in DOMAIN segments : segments[i][1] = type
    THEN CHOOSE i \in DOMAIN segments :
            /\ segments[i][1] = type
            /\ \A j \in DOMAIN segments : segments[j][1] = type => i <= j
    ELSE 0

\* SegmentObservable.get() (184-189): the value of the segment of the type in
\* the navigation's path, undefined when there is none
SegmentObservableGet(segments, type) ==
    IF PathGet(segments, type) = 0 THEN Undefined ELSE segments[PathGet(segments, type)][2]

\* segmentValueEqual (90-105) on values that are not arrays
SegmentValueEqual(a, b) == a = b

\* mutation of EmitIfChanged: the value is emitted whether it changed or not
EmitAlways(nav, type) ==
    IF type \in DOMAIN nav.observables
    THEN [nav EXCEPT !.observables[type] = SegmentObservableGet(nav.path, type),
                     !.emitted = Append(@, <<type, SegmentObservableGet(nav.path, type)>>)]
    ELSE nav

\* observable?.emitIfChanged() (191-197) for the observable of a type, if any;
\* nav holds the path, the observables and the events emitted so far
EmitIfChanged(nav, type) ==
    IF type \in DOMAIN nav.observables
    THEN LET newValue == SegmentObservableGet(nav.path, type)
         IN  IF ~SegmentValueEqual(newValue, nav.observables[type])
             THEN [nav EXCEPT !.observables[type] = newValue,
                              !.emitted = Append(@, <<type, newValue>>)]
             ELSE nav
    ELSE nav

\* the first loop of applyPath (46-53): from segment i of the old path down to
\* the first, the types that are not in the new path
RECURSIVE ClearValues(_, _, _)
ClearValues(nav, oldSegments, i) ==
    IF i = 0 THEN nav
    ELSE ClearValues(IF PathGet(nav.path, oldSegments[i][1]) = 0
                     THEN EmitIfChanged(nav, oldSegments[i][1])
                     ELSE nav,
                     oldSegments, i - 1)

\* the second loop of applyPath (54-58): the segments of the new path from
\* segment i on
RECURSIVE ChangeValues(_, _)
ChangeValues(nav, i) ==
    IF i > Len(nav.path) THEN nav
    ELSE ChangeValues(EmitIfChanged(nav, nav.path[i][1]), i + 1)

\* applyPath(path) (40-62); what the subscribers of pathObservable see is
\* not followed
ApplyPath(newPath) ==
    LET nav == ChangeValues(
                   ClearValues([path |-> newPath, observables |-> observables,
                                emitted |-> <<>>],
                               path, Len(path)),
                   1)
    IN  /\ path' = newPath
        /\ observables' = nav.observables
        /\ emitted' = nav.emitted
        /\ UNCHANGED <<localMedia, mediaVars, metadataVars, callVars>>

\* observe(type) (64-71): the observable of a type is created on first use,
\* holding the value the type has in the path then (179-181)
Observe(type) ==
    /\ type \notin DOMAIN observables
    /\ observables' = [t \in DOMAIN observables \cup {type} |->
                          IF t = type THEN SegmentObservableGet(path, type)
                          ELSE observables[t]]
    /\ UNCHANGED <<path, emitted, localMedia, mediaVars, metadataVars, callVars>>

\* ------------------------------------------------------- specifications

\* call(), answer(), handleInvite(), handleAnswer() and their resumptions
CallNext ==
    \/ Call
    \/ CallMediaSettled
    \/ Answer
    \/ AnswerMediaSettled
    \/ AnswerCreated
    \/ AnswerLocalDescriptionSet
    \/ SendAnswer
    \/ AnswerSendSettled
    \/ InviteRemoteDescriptionSet
    \/ InviteBufferedAdded
    \/ InviteLifetimeElapsed
    \/ AnswerBufferedAdded
    \/ AnswerRemoteDescriptionSet

\* the negotiation chain, and call() returning on InviteSent
NegotiationNext ==
    \/ CallReturn
    \/ OnNegotiationNeeded
    \/ NegotiationStartChained
    \/ NegotiationLocalDescriptionSet
    \/ NegotiationGatherElapsed
    \/ NegotiationInviteSendSettled
    \/ InviteTimeoutElapsed

(***************************************************************************)
(* Spec: the signalling state machine with the negotiation chain, under    *)
(* Invite, Answer and Hangup messages.  Candidates messages are left to    *)
(* SpecCandidates: their handlers write only the candidate variables, and  *)
(* the only thing the other actions read of those is the guard             *)
(* drainQueue = <<>> of a resumption, which can be delayed here anyway.    *)
(***************************************************************************)
Next ==
    \/ CallNext
    \/ NegotiationNext
    \/ Deliver(InviteMessages \cup AnswerMessages \cup HangupMessages)

Spec == Init /\ [][Next]_vars

(***************************************************************************)
(* SpecCandidates: the same state machine under all four message types,    *)
(* with the remote candidate buffer, and without onNegotiationNeeded       *)
(* callbacks (a negotiation task changes the state only from CreateOffer   *)
(* to InviteSent, which no guard of the candidate handling tells apart).   *)
(***************************************************************************)
NextCandidates ==
    \/ CallNext
    \/ AddIceCandidateSettled
    \/ Deliver(InviteMessages \cup AnswerMessages \cup CandidatesMessages \cup HangupMessages)

SpecCandidates == Init /\ [][NextCandidates]_vars

(***************************************************************************)
(* SpecAddIce: an outbound call up to its Answer, with remote candidates   *)
(* that arrive with or without sdpMid and sdpMLineIndex.                   *)
(***************************************************************************)
NextAddIce ==
    \/ Call
    \/ CallMediaSettled
    \/ AnswerBufferedAdded
    \/ AnswerRemoteDescriptionSet
    \/ AddIceCandidateSettled
    \/ Deliver(AnswerMessages \cup AnyCandidatesMessages)

SpecAddIce == Init /\ [][NextAddIce]_vars

(***************************************************************************)
(* SpecHost: the state machine without negotiation tasks, with the host    *)
(* calling hangup() and the peer connection reporting its ICE connection   *)
(* state.                                                                  *)
(***************************************************************************)
NextHost ==
    \/ CallNext
    \/ Deliver(InviteMessages \cup AnswerMessages \cup HangupMessages)
    \/ HangupCalled
    \/ OnIceConnectionStateChange

SpecHost == Init /\ [][NextHost]_vars

(***************************************************************************)
(* SpecQueue: the outbound candidate queue.  queueCandidate() has no       *)
(* caller in the source (the onLocalIceCandidate callback has an empty     *)
(* body); here it is called directly, at any time, as the peer connection  *)
(* would on finding a local candidate.                                     *)
(***************************************************************************)
NextQueue ==
    \/ CallNext
    \/ Deliver(InviteMessages \cup AnswerMessages)
    \/ QueueCandidate
    \/ CandidateDelayElapsed
    \/ CandidatesSendSettled

SpecQueue == Init /\ [][NextQueue]_vars

(***************************************************************************)
(* SpecTrickle: the outbound candidate queue together with the sending of  *)
(* the Invite and of the Answer.  queueCandidate() is called directly, as  *)
(* in SpecQueue.  The host calls call() only on a call that was given no   *)
(* Invite; the only message delivered is an Invite of party A without a    *)
(* lifetime.                                                               *)
(***************************************************************************)
NextTrickle ==
    \/ Call /\ pcInvite = "idle"
    \/ CallMediaSettled
    \/ NegotiationNext
    \/ HandleIncomingSignallingMessage(
            [type |-> "Invite", lifetime |-> NoLifetime, sdp_stream_metadata |-> NoMetadata],
            "A")
    \/ InviteRemoteDescriptionSet
    \/ InviteBufferedAdded
    \/ InviteLifetimeElapsed
    \/ Answer
    \/ AnswerMediaSettled
    \/ AnswerCreated
    \/ AnswerLocalDescriptionSet
    \/ SendAnswer
    \/ AnswerSendSettled
    \/ QueueCandidate
    \/ CandidateDelayElapsed
    \/ CandidatesSendSettled

SpecTrickle == Init /\ [][NextTrickle]_vars

\* the values the fields take
\* dispose() called at any moment of an inbound call with local candidates:
\* the delays of answer(), of a negotiation task, of the Ringing expiry and of
\* queueCandidate are armed there (the delay of line 225 is armed in no call)
NextDispose ==
    \/ HandleIncomingSignallingMessage(
            [type |-> "Invite", lifetime |-> NoLifetime, sdp_stream_metadata |-> NoMetadata],
            "A")
    \/ InviteRemoteDescriptionSet \/ InviteBufferedAdded \/ InviteLifetimeElapsed
    \/ Answer \/ AnswerMediaSettled \/ AnswerCreated \/ AnswerLocalDescriptionSet
    \/ SendAnswer \/ AnswerSendSettled
    \/ OnNegotiationNeeded \/ NegotiationStartChained
    \/ NegotiationLocalDescriptionSet \/ NegotiationGatherElapsed
    \/ QueueCandidate \/ CandidateDelayElapsed \/ CandidatesSendSettled
    \/ Dispose

SpecDispose == Init /\ [][NextDispose]_vars

\* SpecInvite: call(), answer() and Invites with or without stream metadata,
\* from either party
NextInvite ==
    \/ CallNext
    \/ Deliver(InviteMessagesWithMetadata \cup AnswerMessages)

SpecInvite == Init /\ [][NextInvite]_vars

\* a Navigation whose segment types get observed and to which paths are applied
NextNavigation ==
    \/ \E type \in SegmentTypes : Observe(type)
    \/ \E newPath \in Paths : ApplyPath(newPath)

SpecNavigation == Init /\ [][NextNavigation]_vars

\* setMedia on a call constructed with any LocalMedia; here a LocalMedia is
\* given by its track properties
InitMedia ==
    /\ InitCall
    /\ localMedia \in Medias
    /\ pcLocalTracks = TracksOf(localMedia)
    /\ remoteTracks = <<>>

NextMedia ==
    \/ SetMedia
    \/ SetMediaSettled

SpecMedia == InitMedia /\ [][NextMedia]_vars

\* stream metadata updates on a call whose peer connection has remote tracks
InitMetadata ==
    /\ InitCall
    /\ localMedia = "initial"
    /\ pcLocalTracks = {}
    /\ remoteTracks \in RemoteTrackLists

NextMetadata == \E metadata \in SDPStreamMetadata : MetadataUpdated(metadata)

SpecMetadata == InitMetadata /\ [][NextMetadata]_vars

(***************************************************************************)
(* SpecOutbound: an outbound call with its negotiation chain, Answers and  *)
(* hangup() calls, in which every promise the call awaits settles and      *)
(* every timer elapses: a continuation that can run does run.  What the    *)
(* host does (call(), hangup(), onNegotiationNeeded, delivering a message) *)
(* is under no such condition.                                             *)
(***************************************************************************)
NextOutbound ==
    \/ Call
    \/ CallMediaSettled
    \/ NegotiationNext
    \/ Deliver(AnswerMessages)
    \/ AnswerBufferedAdded
    \/ AnswerRemoteDescriptionSet
    \/ HangupCalled

ContinuationsRun ==
    /\ WF_vars(CallMediaSettled)
    /\ WF_vars(CallReturn)
    /\ WF_vars(NegotiationStartChained)
    /\ WF_vars(NegotiationLocalDescriptionSet)
    /\ WF_vars(NegotiationGatherElapsed)
    /\ WF_vars(NegotiationInviteSendSettled)
    /\ WF_vars(InviteTimeoutElapsed)
    /\ WF_vars(AnswerBufferedAdded)
    /\ WF_vars(AnswerRemoteDescriptionSet)

SpecOutbound == Init /\ [][NextOutbound]_vars /\ ContinuationsRun

TypeOK ==
    /\ state \in CallState
    /\ direction \in {Undefined, "Inbound", "Outbound"}
    /\ opponentPartyId \in PartyId \cup {Undefined}
    /\ hangupParty \in {Undefined, "Local", "Remote"}
    /\ statePromiseMap \subseteq CallState
    /\ setRemoteCalls \in 0..2
    /\ nCandMsgs \in 0..MaxCandidates

\* ============================================================== claims

Range(seq) == {seq[i] : i \in DOMAIN seq}
\* number of messages of a type in a sequence of sent messages
Count(seq, type) == Cardinality({i \in DOMAIN seq : seq[i][1] = type})

\* s is t with some elements left out
IsSubSeq(s, t) ==
    \E f \in [DOMAIN s -> DOMAIN t] :
        /\ \A i \in DOMAIN s : t[f[i]] = s[i]
        /\ \A i, j \in DOMAIN s : i < j => f[i] < f[j]

AllMessages == InviteMessages \cup AnswerMessages \cup CandidatesMessages \cup HangupMessages

\* C1: Ended is absorbing: no step of any operation, handler, callback, timer
\* or resumption takes the state from Ended to another state.
C1_EndedAbsorbing == [][state = "Ended" => state' = "Ended"]_vars

\* C2: at most one message of type Invite is ever handed to
\* sendSignallingMessage.
C2_AtMostOneInvite == Count(sent, "Invite") <= 1

\* C2 witness: the Invite was sent and a second negotiation task has run to
\* its end as well.
C2_Witness ==
    /\ Count(sent, "Invite") = 1
    /\ negPc[1] = "done"
    /\ negPc[2] = "done"
    /\ pcCall = "done"

\* C3: at most one message of type Answer is ever handed to
\* sendSignallingMessage.
C3_AtMostOneAnswer == Count(sent, "Answer") <= 1

\* C3 witness: answer() ran to its end and the Answer was sent, in a call that
\* was also given an inbound Answer message.
C3_Witness ==
    /\ Count(sent, "Answer") = 1
    /\ pcAnswer = "done"
    /\ lastMsg[1] = "Answer"

\* C4: negotiation tasks never overlap and keep arrival order: a task that
\* has started (called setLocalDescription) has every earlier-triggered task
\* completed, so at most one task is between its start and its end.
C4_NegotiationSerialized ==
    \A j, k \in NegIds :
        (j < k /\ negPc[k] \in NegActive \cup {"done", "failed"})
            => negPc[j] \in {"done", "failed"}

\* C4 witness: a second onNegotiationNeeded arrived while the first task was
\* in the middle of an await, and waits behind it.
C4_Witness == negPc[1] = "awaitGather" /\ negPc[2] = "queued"

\* the committed handler is past its `await addBufferedIceCandidates()`
PastAddBuffered ==
    \/ pcInvite = "awaitLifetime"
    \/ pcAnswerMsg \in {"awaitSetRemote", "done"}

\* C5: every candidate passed to addIceCandidate came from the committed
\* opponent party, which was set by then; when the buffer is dropped the
\* opponent's buffered candidates have all been added, in arrival order; and
\* once the committed handler is past addBufferedIceCandidates no candidate
\* buffered for the opponent is left unadded.
C5_CandidatesOfOpponent ==
    /\ [](\A i \in DOMAIN addedCandidates :
            opponentPartyId # Undefined /\ addedCandidates[i][1] = opponentPartyId)
    /\ [][(remoteCandidateBuffer.present /\ ~remoteCandidateBuffer'.present)
            => IsSubSeq(remoteCandidateBuffer.map[opponentPartyId'], addedCandidates')]_vars
    /\ []((PastAddBuffered /\ remoteCandidateBuffer.present)
            => Range(remoteCandidateBuffer.map[opponentPartyId]) \subseteq Range(addedCandidates))

\* C6: a committed opponentPartyId never changes, and an Answer from another
\* party changes neither state nor opponentPartyId, calls neither
\* setRemoteDescription nor addIceCandidate and leaves no handler suspended.
C6_OpponentCommittedOnce ==
    [][/\ opponentPartyId # Undefined => opponentPartyId' = opponentPartyId
       /\ \A p \in PartyId :
            (HandleAnswer(p) /\ opponentPartyId \notin {Undefined, p})
                => UNCHANGED <<state, opponentPartyId, setRemoteCalls, addedCandidates,
                               drainQueue, pcAnswerMsg>>]_vars

\* C6 witness: the handling of the Answer of party A is suspended at its
\* first await, with a candidate of A being added, when an Answer of the
\* legacy party arrives.
C6_Witness ==
    /\ opponentPartyId = "A"
    /\ pcAnswerMsg = "awaitAddBuffered"
    /\ drainQueue # <<>>
    /\ lastMsg = <<"Answer", NullParty>>

C8_RingingExpiry ==
    /\ [](pcInvite = "awaitLifetime" =>
            ringTimerMs = IF inviteLifetime = NoLifetime
                          THEN CALL_TIMEOUT_MS ELSE inviteLifetime[1])
    /\ [][(state # "Ringing" /\ state' = "Ringing") => pcInvite' = "awaitLifetime"]_vars
    /\ [][(pcInvite = "awaitLifetime" /\ pcInvite' # "awaitLifetime") =>
            IF state = "Ringing"
            THEN /\ state' = "Ended"
                 /\ hangupParty' = "Remote"
                 /\ localMedia \in stoppedMedia'
                 /\ pcClosed'
            ELSE UNCHANGED <<state, direction, opponentPartyId, termVars, localMedia,
                             pcTracks, candVars, setRemoteCalls, negPc, sent,
                             statePromiseMap, pcCall, pcAnswer, pcAnswerMsg, ringVars,
                             inviteClock, lastMsg>>]_vars

\* C8 witness: the expiry delay of an Invite with a lifetime elapsed in Ringing.
C8_Witness ==
    /\ pcInvite = "done"
    /\ state = "Ended"
    /\ hangupParty = "Remote"
    /\ ringTimerMs = 30000
    /\ pcClosed

\* C9: in Ended, the delivery of an Invite, Answer, Candidates or Hangup
\* message changes none of state, hangupParty, hangupReason, and leaves no
\* handler suspended that could change them later.
C9_EndedIgnoresMessages ==
    [][(state = "Ended" /\ Deliver(AllMessages))
        => UNCHANGED <<state, hangupParty, hangupReason, pcInvite, pcAnswerMsg,
                       drainQueue>>]_vars

\* C9 witness: the call has ended and an Answer of party A was dropped though
\* no opponent is committed, that is, it was delivered in Ended.
C9_Witness ==
    /\ state = "Ended"
    /\ opponentPartyId = Undefined
    /\ pcAnswerMsg = "idle"
    /\ lastMsg = <<"Answer", "A">>

\* C10: hangupParty and hangupReason are both unset while the state is not
\* Ended and both set whenever it is Ended.
C10_HangupSetWithEnded ==
    /\ state # "Ended" => (hangupParty = Undefined /\ hangupReason = Undefined)
    /\ state = "Ended" => (hangupParty # Undefined /\ hangupReason # Undefined)

\* the Invite messages sent so far
SentInvites == SelectSeq(sent, LAMBDA m : m[1] = "Invite")

C12_IceConnected ==
    [][(state = "Connecting" /\ iceConnectionState # "connected"
            /\ iceConnectionState' = "connected")
        => state' = "Connected"]_vars

C14_RemoteHangup ==
    [][(state # "Ended" /\ lastMsg' # lastMsg /\ lastMsg'[1] = "Hangup")
        => /\ state' = "Ended"
           /\ hangupParty' = "Remote"
           /\ hangupReason' = "UserHangup"]_vars

\* C15: hangup(reason) called in a state other than Ended sends exactly one
\* Hangup message and leaves the call Ended with hangupParty Local and
\* hangupReason reason; called in Ended it sends nothing and changes nothing.
C15_LocalHangup ==
    [][(lastHangup' # lastHangup)
        => IF state # "Ended"
           THEN /\ state' = "Ended"
                /\ hangupParty' = "Local"
                /\ hangupReason' = lastHangup'[1]
                /\ Count(sent', "Hangup") = Count(sent, "Hangup") + 1
           ELSE UNCHANGED <<state, hangupParty, hangupReason, sent>>]_vars

\* C16: terminate(party, reason, emit) on a call that has not ended leaves it
\* Ended with hangupParty party and hangupReason reason, the local tracks
\* stopped, the peer connection closed and no delay outstanding; on an ended
\* call it changes nothing.
C16_Terminate ==
    [][(lastTerminate' # lastTerminate)
        => IF state # "Ended"
           THEN /\ state' = "Ended"
                /\ hangupParty' = lastTerminate'[1]
                /\ hangupReason' = lastTerminate'[2]
                /\ localMedia \in stoppedMedia'
                /\ pcClosed'
                /\ pcInvite' # "awaitLifetime"
                /\ pcAnswer' # "awaitDelay"
                /\ \A k \in NegIds : negPc'[k] \notin {"awaitGather", "awaitTimeout"}
                /\ candTimers' = <<>>
           ELSE UNCHANGED <<state, hangupParty, hangupReason, stoppedMedia, pcClosed>>]_vars

\* C17: when the media promise given to call() rejects, the state becomes
\* Ended with hangupReason NoUserMedia, no track is added to the peer
\* connection, and no Invite is sent then or later.
C17_CallNoUserMedia ==
    /\ [][(pcCall = "awaitMedia" /\ pcCall' = "done")
          => /\ state' = "Ended"
             /\ hangupReason' = "NoUserMedia"
             /\ pcTracks' = pcTracks]_vars
    /\ []((pcCall = "done" /\ "callMedia" \notin pcTracks)
          => Count(sent, "Invite") = 0)

\* C18: in answer(), a failure of createAnswer ends the call with hangupParty
\* Local and hangupReason CreateAnswer, and a failure of setLocalDescription
\* with hangupReason SetLocalDescription; in both cases the state is Ended
\* (not CreateAnswer) and no Answer message is sent.
C18_AnswerFailure ==
    /\ [][(pcAnswer = "awaitCreateAnswer" /\ pcAnswer' = "done")
          => /\ state' = "Ended"
             /\ hangupParty' = "Local"
             /\ hangupReason' = "CreateAnswer"]_vars
    /\ [][(pcAnswer = "awaitSetLocal" /\ pcAnswer' = "done")
          => /\ state' = "Ended"
             /\ hangupParty' = "Local"
             /\ hangupReason' = "SetLocalDescription"]_vars
    /\ [][(pcAnswer \in {"awaitCreateAnswer", "awaitSetLocal"} /\ pcAnswer' = "done")
          => Count(sent', "Answer") = 0]_vars

\* C19: when sendSignallingMessage rejects for the Invite, the state becomes
\* Ended with hangupReason SendInvite, and from then on it is neither
\* CreateOffer nor InviteSent.
C19_SendInviteFailure ==
    /\ [][\A k \in NegIds :
            (negPc[k] = "awaitSendInvite" /\ negPc'[k] = "failed")
                => (state' = "Ended" /\ hangupReason' = "SendInvite")]_vars
    /\ []((\E k \in NegIds : negPc[k] = "failed")
            => state \notin {"CreateOffer", "InviteSent"})

\* the candidates of the Candidates messages sent so far, in the order sent
RECURSIVE SentCandidates(_)
SentCandidates(msgs) ==
    IF msgs = <<>> THEN <<>>
    ELSE (IF Head(msgs)[1] = "Candidates" THEN Head(msgs)[2] ELSE <<>>)
            \o SentCandidates(Tail(msgs))

\* C20: when the send of a Candidates message fails, the call ends with
\* state Ended, hangupParty Local and hangupReason SignallingFailed, and the
\* candidates of that message are neither put back into candidateSendQueue
\* nor sent a second time.
C20_CandidatesSendFailure ==
    /\ [][(failedCandidates' # failedCandidates)
          => /\ state' = "Ended"
             /\ hangupParty' = "Local"
             /\ hangupReason' = "SignallingFailed"]_vars
    /\ [](/\ failedCandidates \cap Range(candidateSendQueue) = {}
          /\ \A i, j \in DOMAIN SentCandidates(sent) :
                (SentCandidates(sent)[i] = SentCandidates(sent)[j]) => i = j)

\* C21: when, on an Invite, setRemoteDescription fails or the peer connection
\* has no remote track afterwards, the call ends with hangupParty Local and
\* hangupReason SetRemoteDescription: the state becomes Ended, never becomes
\* Ringing, and no Ringing expiry delay is armed.
C21_InviteFailure ==
    /\ [][(pcInvite \in {"awaitSetRemote", "awaitAddBuffered"} /\ pcInvite' = "done")
          => /\ state' = "Ended"
             /\ hangupParty' = "Local"
             /\ hangupReason' = "SetRemoteDescription"
             /\ ringTimerMs' = 0]_vars
    /\ []((pcInvite = "done" /\ ringTimerMs = 0) => state # "Ringing")

\* the changes of state the state machine allows, any state -> Ended aside
AllowedTransitions ==
    { <<"Fledgling", "WaitLocalMedia">>, <<"Fledgling", "Ringing">>,
      <<"WaitLocalMedia", "CreateOffer">>, <<"WaitLocalMedia", "CreateAnswer">>,
      <<"CreateOffer", "InviteSent">>, <<"InviteSent", "Connecting">>,
      <<"Ringing", "WaitLocalMedia">>, <<"CreateAnswer", "Connecting">>,
      <<"Connecting", "Connected">> }

\* C22: every change of state is an allowed transition or ends in Ended; so
\* the state becomes Connecting on an Answer only from InviteSent, and never
\* goes from Connecting back to InviteSent, CreateOffer or Ringing.
C22_AllowedTransitions ==
    [][state' # state
        => (state' = "Ended" \/ <<state, state'>> \in AllowedTransitions)]_vars

\* C23: in every reachable state remoteCandidateBuffer is present exactly
\* when opponentPartyId is unset.
C23_BufferIffNoOpponent ==
    remoteCandidateBuffer.present <=> (opponentPartyId = Undefined)

\* the candidates handed over in Candidates messages in this step
NewlySentCandidates ==
    Range(SentCandidates(sent')) \ Range(SentCandidates(sent))

C25_NoSendWhileRinging ==
    [][state = "Ringing" => Count(sent', "Candidates") = Count(sent, "Candidates")]_vars

\* a delay armed by queueCandidate for candidate c is among timers
Armed(c, timers) == \E i \in DOMAIN timers : timers[i][2] = c

\* the trickle delay of the call's direction is still running for candidate c
\* after this step
DelayRunning(c) ==
    \E i \in DOMAIN candTimers' :
        candTimers'[i] = <<IF direction' = "Inbound" THEN 500 ELSE 2000, c>>

\* the first queued of a non-empty set of candidates
FirstQueued(cands) == CHOOSE c \in cands : \A d \in cands : c <= d

\* a queueCandidate delay elapses in this step
DelayElapses == \E i \in DOMAIN candTimers : ~Armed(candTimers[i][2], candTimers')

\* the send of an Invite, an Answer or a Candidates message settles in this step
SendSettles ==
    \/ candSends \ candSends' # {}
    \/ pcAnswer = "awaitSendAnswer" /\ pcAnswer' # "awaitSendAnswer"
    \/ \E k \in NegIds : negPc[k] = "awaitSendInvite" /\ negPc'[k] # "awaitSendInvite"

\* what C26 and its amended form have in common: queueCandidate arms a delay
\* of 500 ms (Inbound) or 2000 ms unless the call is Ringing; a delay that
\* elapses with candidates queued, the call not Ended, sends them; a
\* Candidates message takes the whole queue in emission order and leaves it
\* empty; over the call every candidate is sent at most once, in arrival order.
TrickleBatches ==
    /\ [][Len(candTimers') > Len(candTimers)
          => /\ state # "Ringing"
             /\ candTimers'[Len(candTimers')] =
                    <<IF direction = "Inbound" THEN 500 ELSE 2000, nLocalCands'>>]_vars
    /\ [][(DelayElapses /\ candidateSendQueue # <<>> /\ state # "Ended")
          => Count(sent', "Candidates") = Count(sent, "Candidates") + 1]_vars
    /\ [][Count(sent', "Candidates") > Count(sent, "Candidates")
          => /\ sent' = Append(sent, <<"Candidates", candidateSendQueue>>)
             /\ candidateSendQueue' = <<>>]_vars
    /\ [](\A i, j \in DOMAIN SentCandidates(sent) :
            i < j => SentCandidates(sent)[i] < SentCandidates(sent)[j])

\* C26 as stated: candidates queued outside Ringing are not sent before the
\* trickle delay has elapsed since the first of them was queued (the delay
\* armed for the first candidate of a message, if it is the delay of the
\* call's direction, is not still running), and TrickleBatches.
C26_TrickleBatching ==
    /\ [][NewlySentCandidates # {}
          => ~DelayRunning(FirstQueued(NewlySentCandidates))]_vars
    /\ TrickleBatches

\* C26 amended: a Candidates message is sent only when a queueCandidate delay
\* elapses or right after the send of an Invite, an Answer or a Candidates
\* message has settled, and TrickleBatches.
C26_TrickleBatchingAmended ==
    /\ [][NewlySentCandidates # {} => (DelayElapses \/ SendSettles)]_vars
    /\ TrickleBatches

\* C26 witness: two candidates went out in one Candidates message, in the
\* order queued, on an inbound call.
C26_Witness ==
    /\ direction = "Inbound"
    /\ Count(sent, "Candidates") = 1
    /\ SentCandidates(sent) = <<1, 2>>


\* the i-th of the setMedia calls in flight got its media in this step
SetMediaResumed(i) ==
    /\ setMediaCalls' = RemoveAt(setMediaCalls, i)
    /\ lastSetMedia' = <<setMediaCalls[i][2]>>

\* the track calls of a log that are about a role
CallsAbout(role, calls) == {calls[k] : k \in {j \in DOMAIN calls : calls[j][2][2] = role}}

\* C27: when setMedia resumes, for each of the three roles the peer connection
\* gets exactly one call determined by (old track, new track): replaceTrack(old,
\* new) when both are present, removeTrack(old) when only the old is,
\* addTrack(new) when only the new is, and no call when neither is.
C27_SetMediaPerRole ==
    [][\A i \in DOMAIN setMediaCalls :
         SetMediaResumed(i) =>
           /\ \A role \in TrackRoles :
                 LET old == setMediaCalls[i][1][role]
                     new == setMediaCalls[i][2][role]
                 IN  CallsAbout(role, trackCalls') =
                         IF old # NoTrack /\ new # NoTrack
                         THEN {<<"replaceTrack", old, new>>}
                         ELSE IF old # NoTrack THEN {<<"removeTrack", old>>}
                         ELSE IF new # NoTrack THEN {<<"addTrack", new>>}
                         ELSE {}
           /\ Len(trackCalls') =
                 Cardinality({role \in TrackRoles :
                                 \/ setMediaCalls[i][1][role] # NoTrack
                                 \/ setMediaCalls[i][2][role] # NoTrack})]_vars

\* a setMedia call replaced one track, removed another and added a third
C27_Witness ==
    /\ lastSetMedia # NoCall
    /\ {trackCalls[k][1] : k \in DOMAIN trackCalls} = {"replaceTrack", "removeTrack", "addTrack"}

\* C28: a setMedia(m) that resumes right after a setMedia(m) with the same
\* media, which was localMedia when it was called, makes no addTrack,
\* removeTrack or replaceTrack call.
C28_SetMediaIdempotent ==
    [][\A i \in DOMAIN setMediaCalls :
         (/\ SetMediaResumed(i)
          /\ setMediaCalls[i][1] = setMediaCalls[i][2]
          /\ lastSetMedia = <<setMediaCalls[i][2]>>)
           => trackCalls' = <<>>]_vars

\* C29: getPurposeForStreamId returns the purpose recorded for the stream id
\* and Usermedia when none is recorded; an update overwrites what is recorded
\* for the stream ids it names and keeps the rest; applying the same update a
\* second time leaves the registry and every remote track's type unchanged.
C29_StreamMetadata ==
    /\ [](remoteSDPStreamMetadata = NoMetadata
            => \A id \in StreamIds : GetPurposeForStreamId(Registry, id) = "Usermedia")
    /\ [][lastMetadata' # lastMetadata =>
            /\ \A id \in StreamIds :
                  GetPurposeForStreamId(Registry, id)' =
                      IF id \in DOMAIN lastMetadata'[1]
                      THEN lastMetadata'[1][id].purpose
                      ELSE GetPurposeForStreamId(Registry, id)
            /\ \A id \in DOMAIN Registry' :
                  Registry'[id] =
                      IF id \in DOMAIN lastMetadata'[1]
                      THEN lastMetadata'[1][id]
                      ELSE Registry[id]
            /\ \A k \in DOMAIN remoteTracks :
                  remoteTracks'[k].type \in
                      IF GetPurposeForStreamId(Registry, remoteTracks[k].streamId)' = "Usermedia"
                      THEN {"Microphone", "Camera"}
                      ELSE {"ScreenShare"}]_vars
    /\ [][(lastMetadata' # NoCall /\ lastMetadata'[2]) =>
            /\ remoteSDPStreamMetadata' = remoteSDPStreamMetadata
            /\ \A k \in DOMAIN remoteTracks : remoteTracks'[k].type = remoteTracks[k].type]_vars

\* an update that records a screen share for one stream and nothing for the
\* other was applied twice in a row
C29_Witness ==
    /\ lastMetadata # NoCall
    /\ lastMetadata[2]
    /\ GetPurposeForStreamId(Registry, "s1") = "Screenshare"
    /\ "s2" \notin DOMAIN Registry
    /\ \E k \in DOMAIN remoteTracks : remoteTracks[k].type = "ScreenShare"

\* the await gated by a delay is resumed in this step
DelayElapsed(d) == d \in LiveDelays /\ d \notin LiveDelays' /\ disposed' = disposed

ChangedTypes(newPath) ==
    {type \in DOMAIN observables : SegmentObservableGet(newPath, type) # observables[type]}

\* the index of the last segment of a type in a path
LastIndex(segments, type) ==
    CHOOSE i \in DOMAIN segments :
        /\ segments[i][1] = type
        /\ \A j \in DOMAIN segments : segments[j][1] = type => j <= i

\* C31: applyPath(path) emits exactly one event, carrying the new value, for
\* each observed type whose value differs from the one its observable holds
\* (the one last emitted, or the one it had when it was first observed), and
\* none for the others: first for the types that are absent from the new
\* path, in reverse order of the old path, then for the types of the new path
\* in path order.
C31_ApplyPathEmits ==
    /\ [][(path' # path \/ emitted' # emitted) =>
            /\ {emitted'[i][1] : i \in DOMAIN emitted'} = ChangedTypes(path')
            /\ Len(emitted') = Cardinality(ChangedTypes(path'))
            /\ \A i \in DOMAIN emitted' :
                  emitted'[i][2] = SegmentObservableGet(path', emitted'[i][1])
            /\ \A i, j \in DOMAIN emitted' :
                  i < j =>
                    LET a == emitted'[i][1]
                        b == emitted'[j][1]
                        aAbsent == \A k \in DOMAIN path' : path'[k][1] # a
                        bAbsent == \A k \in DOMAIN path' : path'[k][1] # b
                    IN  /\ bAbsent => aAbsent
                        /\ (aAbsent /\ bAbsent) => LastIndex(path, a) > LastIndex(path, b)
                        /\ (~aAbsent /\ ~bAbsent) => PathGet(path', a) < PathGet(path', b)]_vars
    /\ [](\A type \in DOMAIN observables :
            observables[type] = SegmentObservableGet(path, type))

\* two observed types left the path and a third entered it: three events
C31_Witness ==
    /\ Len(emitted) = 3
    /\ emitted[1][2] = Undefined
    /\ emitted[2][2] = Undefined
    /\ emitted[3][2] # Undefined

\* C32: an Invite delivered when the state is not Fledgling or an opponent
\* party id is already set leaves state, direction, opponentPartyId and the
\* remote stream metadata as they are, and setRemoteDescription is not called.
C32_InviteIgnored ==
    [][\A message \in InviteMessagesWithMetadata, partyId \in PartyId :
         (/\ HandleIncomingSignallingMessage(message, partyId)
          /\ (state # "Fledgling" \/ opponentPartyId # Undefined))
           => /\ state' = state
              /\ direction' = direction
              /\ opponentPartyId' = opponentPartyId
              /\ remoteSDPStreamMetadata' = remoteSDPStreamMetadata
              /\ setRemoteCalls' = setRemoteCalls]_vars

\* an Invite of the legacy party was the last message given to a call that
\* is Ringing for party A, whose Invite recorded stream metadata
C32_Witness ==
    /\ state = "Ringing"
    /\ opponentPartyId = "A"
    /\ lastMsg = <<"Invite", NullParty>>
    /\ remoteSDPStreamMetadata # NoMetadata


\* the candidates addIceCandidates does not leave out: sdpMid or sdpMLineIndex is set
HasMidOrIndex(candidate) == candidate[3] # Undefined \/ candidate[4] # Undefined

C34_NoTaskAfterEnded ==
    [][state = "Ended"
        => \A k \in NegIds :
              /\ (negPc[k] = "queued" => negPc'[k] = "queued")
              /\ (negPc'[k] # negPc[k] => sent' = sent)]_vars


SetRemoteDescriptionPending == pcInvite = "awaitSetRemote" \/ pcAnswerMsg = "awaitSetRemote"

\* the step passes a buffered candidate to addIceCandidate
BufferedCandidateAdded ==
    /\ Len(addedCandidates') > Len(addedCandidates)
    /\ drainQueue' # <<>>
    /\ Head(drainQueue') = addedCandidates'[Len(addedCandidates')]

C37_OneDirection ==
    [][direction # Undefined => direction' = direction]_vars


\* the calls applyTrack makes for the three roles, from oldMedia to newMedia
TrackCallsBetween(oldMedia, newMedia) ==
    ApplyTrack(oldMedia.microphoneTrack, newMedia.microphoneTrack)
    \o ApplyTrack(oldMedia.cameraTrack, newMedia.cameraTrack)
    \o ApplyTrack(oldMedia.screenShareTrack, newMedia.screenShareTrack)

\* C38: also when setMedia calls overlap, the peer-connection calls of a
\* resuming setMedia are those from the media installed just before it resumes
\* to its new media, and once no setMedia call is in flight the local tracks
\* attached to the peer connection are the tracks of the installed localMedia.
C38_OverlappingSetMedia ==
    /\ [][\A i \in DOMAIN setMediaCalls :
            SetMediaResumed(i)
              => trackCalls' = TrackCallsBetween(localMedia, setMediaCalls[i][2])]_vars
    /\ [](setMediaCalls = <<>> => pcLocalTracks = TracksOf(localMedia))


\* C39: while the call is not Ended, a task chained by onNegotiationNeeded is
\* eventually started, also behind a task that failed (its setLocalDescription
\* or its Invite send was rejected).
C39_ChainNotBlocked ==
    \A k \in NegIds :
        (negPc[k] = "queued") ~> (negPc[k] # "queued" \/ state = "Ended")

\* C40: a call() that waits for InviteSent eventually returns, whether the
\* state enters InviteSent or the call ends or fails instead.
C40_CallReturns ==
    (pcCall = "waitInviteSent") ~> (pcCall = "done")

=============================================================================
